---------------------------- MODULE Spec2Model ----------------------------
(***************************************************************************)
(* napari-geff: the reader gate (get_geff_reader), the tracklet            *)
(* decomposition of a directed lineage graph (get_tracklets, run by        *)
(* reader_function), and the writer's edge reconstruction (get_edge_df,    *)
(* create_nx_graph, run by write_tracks), followed by a second             *)
(* decomposition of the rebuilt graph.                                     *)
(*                                                                         *)
(* Node identifiers are opaque to the code (only compared for equality),   *)
(* so the nodes of the loaded graph are named by their position in         *)
(* graph.nodes(): the loaded graph enumerates 1, 2, ..., n and the edge    *)
(* relation ranges over every admissible relation on those names.  Every   *)
(* pair (graph, enumeration order) is one of these up to renaming.  The    *)
(* rebuilt graph enumerates its nodes in the order create_nx_graph adds    *)
(* them.  Time values are only ever compared with each other (by           *)
(* sort_values), so they are named by their rank: the times of a graph     *)
(* are 1..k for some k.                                                    *)
(***************************************************************************)
EXTENDS Integers, Sequences, FiniteSets, TLC

\* Bounds of the model.
NumNodes == 4
MaxEdges == 3

Nodes == 1..NumNodes

\* Value pandas' Series.map leaves for a node missing from node_to_tid.
NaN == 0

\* Python's None for start_node / temp_node outside their loops.
None == 0

VARIABLES
    path,             \* argument of get_geff_reader: a file or a list of files
    reader,           \* what get_geff_reader gave back
    graph,            \* nx.DiGraph: [nodes: insertion order, succ: ordered adjacency]
    pc,               \* position in the program
    pass,             \* 1: decomposition of the loaded graph, 2: of the rebuilt graph
    idx,              \* position of the outer loop in graph.nodes()
    start_node,
    temp_node,
    back_steps,       \* history: predecessors the current backward walk has moved to,
                      \* counted up to one more than the number of nodes
    current_tracklet,
    track_id,
    visited_nodes,
    node_to_tid,
    parent_graph,     \* defaultdict(list), as its items in insertion order
    track_graph,      \* dict, as its items in insertion order
    tracklets,        \* history: the member lists, in the order they were built
    features,         \* the layer's features table (rows in table order)
    tracklets_graph,  \* the layer's "graph" mapping
    edges,            \* the rows of edge_df
    exc               \* the exception that ended the run, if any

vars == <<path, reader, graph, pc, pass, idx, start_node, temp_node, back_steps,
          current_tracklet, track_id, visited_nodes, node_to_tid, parent_graph,
          track_graph, tracklets, features, tracklets_graph, edges, exc>>

-----------------------------------------------------------------------------
\* Sequences and dicts

Range(s) == {s[i] : i \in DOMAIN s}

Perms(S) == {p \in [1..Cardinality(S) -> S] : \A x \in S : \E i \in DOMAIN p : p[i] = x}

EmptyDict == <<>>

-----------------------------------------------------------------------------
\* networkx.DiGraph

NodeSet(g) == Range(g.nodes)

successors(g, n) == g.succ[n]

predecessors(g, n) == {u \in NodeSet(g) : n \in Range(g.succ[u])}

in_degree(g, n) == Cardinality(predecessors(g, n))

out_degree(g, n) == Len(g.succ[n])

EdgeSet(g) == {e \in NodeSet(g) \X NodeSet(g) : e[2] \in Range(g.succ[e[1]])}

RECURSIVE Reach(_, _)
Reach(g, S) ==
    LET T == S \cup {v \in NodeSet(g) : \E u \in S : v \in Range(g.succ[u])}
    IN  IF T = S THEN S ELSE Reach(g, T)

Acyclic(g) == \A n \in NodeSet(g) : n \notin Reach(g, Range(g.succ[n]))

\* the time attribute t strictly increases along every edge of E
TimeRespecting(E, t) == \A e \in E : t[e[1]] < t[e[2]]

-----------------------------------------------------------------------------
\* get_tracklets

\* parent_graph[child] = [parent]: the list is replaced, not extended
pg_assign(pg, child, parent) ==
    IF \E i \in DOMAIN pg : pg[i].child = child
    THEN LET i == CHOOSE k \in DOMAIN pg : pg[k].child = child
         IN  [pg EXCEPT ![i].parents = <<parent>>]
    ELSE Append(pg, [child |-> child, parents |-> <<parent>>])

\* parent_graph[child].append(parent) on a defaultdict(list)
pg_append(pg, child, parent) ==
    IF \E i \in DOMAIN pg : pg[i].child = child
    THEN LET i == CHOOSE k \in DOMAIN pg : pg[k].child = child
         IN  [pg EXCEPT ![i].parents = Append(@, parent)]
    ELSE Append(pg, [child |-> child, parents |-> <<parent>>])

\* the forward walk without recording the children of the node that ends it
pg_append_none(pg, children, parent) == pg

\* for child in graph.successors(temp_node): parent_graph[child].append(temp_node)
RECURSIVE pg_append_all(_, _, _)
pg_append_all(pg, children, parent) ==
    IF children = <<>> THEN pg
    ELSE pg_append_all(pg_append(pg, Head(children), parent), Tail(children), parent)

\* the assignment loop run after track_id += 1
assign_tid_incremented(ntt, members, tid) ==
    [n \in DOMAIN ntt \cup Range(members) |->
        IF n \in Range(members) THEN tid + 1 ELSE ntt[n]]

\* for node_id in current_tracklet: node_to_tid[node_id] = track_id
assign_tid(ntt, members, tid) ==
    [n \in DOMAIN ntt \cup Range(members) |->
        IF n \in Range(members) THEN tid ELSE ntt[n]]

\* the dict comprehension finds every key it looks up
remap_ok(pg, ntt) ==
    \A i \in DOMAIN pg :
        /\ pg[i].child \in DOMAIN ntt
        /\ \A j \in DOMAIN pg[i].parents : pg[i].parents[j] \in DOMAIN ntt

\* d[key] = value on a dict kept as its items in insertion order
dict_set(d, key, value) ==
    IF \E i \in DOMAIN d : d[i].tid = key
    THEN LET i == CHOOSE k \in DOMAIN d : d[k].tid = key
         IN  [d EXCEPT ![i].parents = value]
    ELSE Append(d, [tid |-> key, parents |-> value])

\* {node_to_tid[node_id]: [node_to_tid[p] for p in parents] for node_id, parents in ...}
RECURSIVE remap(_, _, _)
remap(pg, ntt, d) ==
    IF pg = <<>> THEN d
    ELSE remap(Tail(pg), ntt,
               dict_set(d, ntt[Head(pg).child],
                        [j \in DOMAIN Head(pg).parents |-> ntt[Head(pg).parents[j]]]))

\* track_id = 1
first_track_id == 1

\* no walk back: the tracklet starts at the node of the outer loop
never_walks_back(g, n) == FALSE

\* while graph.in_degree(start_node) == 1
has_one_predecessor(g, n) == in_degree(g, n) = 1

\* the walk back without the test of the visited set
predecessor_never_visited(visited, predecessor) == FALSE

\* if predecessor in visited_nodes
predecessor_visited(visited, predecessor) == predecessor \in visited

\* if graph.out_degree(temp_node) != 1
ends_tracklet(g, n) == out_degree(g, n) # 1

\* the forward walk without the test of the successor's in-degree
never_starts_tracklet(g, n) == FALSE

\* if graph.in_degree(successor) != 1
starts_tracklet(g, n) == in_degree(g, n) # 1

\* track_id = 1; visited_nodes = set(); node_to_tid = {}; parent_graph = defaultdict(list)
get_tracklets_begin ==
    /\ pc = "get_tracklets"
    /\ track_id' = first_track_id
    /\ visited_nodes' = {}
    /\ node_to_tid' = EmptyDict
    /\ parent_graph' = <<>>
    /\ track_graph' = <<>>
    /\ tracklets' = <<>>
    /\ idx' = 1
    /\ start_node' = None
    /\ temp_node' = None
    /\ current_tracklet' = <<>>
    /\ back_steps' = 0
    /\ pc' = "for"
    /\ UNCHANGED <<path, reader, graph, pass, features, tracklets_graph, edges, exc>>

\* for node in graph.nodes(): if node in visited_nodes: continue; start_node = node
for_node ==
    /\ pc = "for"
    /\ IF idx > Len(graph.nodes)
       THEN /\ pc' = "remap"
            /\ UNCHANGED <<idx, start_node>>
       ELSE IF graph.nodes[idx] \in visited_nodes
            THEN /\ idx' = idx + 1
                 /\ UNCHANGED <<pc, start_node>>
            ELSE /\ start_node' = graph.nodes[idx]
                 /\ pc' = "backward"
                 /\ UNCHANGED idx
    /\ back_steps' = 0
    /\ UNCHANGED <<path, reader, graph, pass, temp_node, current_tracklet,
                   track_id, visited_nodes, node_to_tid, parent_graph, track_graph,
                   tracklets, features, tracklets_graph, edges, exc>>

\* one test of the while loop that looks for the start of the tracklet, then
\* current_tracklet = []; temp_node = start_node when the loop ends
backward_walk ==
    /\ pc = "backward"
    /\ LET predecessor == CHOOSE u \in predecessors(graph, start_node) : TRUE
       IN  IF /\ has_one_predecessor(graph, start_node)
              /\ ~predecessor_visited(visited_nodes, predecessor)
           THEN /\ start_node' = predecessor
                /\ back_steps' = IF back_steps <= Len(graph.nodes)
                                  THEN back_steps + 1 ELSE back_steps
                /\ UNCHANGED <<pc, temp_node, current_tracklet>>
           ELSE /\ current_tracklet' = <<>>
                /\ temp_node' = start_node
                /\ pc' = "forward"
                /\ UNCHANGED <<start_node, back_steps>>
    /\ UNCHANGED <<path, reader, graph, pass, idx, track_id, visited_nodes,
                   node_to_tid, parent_graph, track_graph, tracklets, features,
                   tracklets_graph, edges, exc>>

\* one pass of the while True loop that collects the tracklet
forward_walk ==
    /\ pc = "forward"
    /\ current_tracklet' = Append(current_tracklet, temp_node)
    /\ visited_nodes' = visited_nodes \cup {temp_node}
    /\ IF ends_tracklet(graph, temp_node)
       THEN /\ parent_graph' = pg_append_all(parent_graph, successors(graph, temp_node), temp_node)
            /\ pc' = "assign"
            /\ UNCHANGED temp_node
       ELSE LET successor == successors(graph, temp_node)[1]
            IN  IF starts_tracklet(graph, successor)
                THEN /\ parent_graph' = pg_append(parent_graph, successor, temp_node)
                     /\ pc' = "assign"
                     /\ UNCHANGED temp_node
                ELSE /\ temp_node' = successor
                     /\ UNCHANGED <<pc, parent_graph>>
    /\ UNCHANGED <<back_steps, path, reader, graph, pass, idx, start_node, track_id,
                   node_to_tid, track_graph, tracklets, features, tracklets_graph,
                   edges, exc>>

\* for node_id in current_tracklet: node_to_tid[node_id] = track_id; track_id += 1
assign_track_id ==
    /\ pc = "assign"
    /\ node_to_tid' = assign_tid(node_to_tid, current_tracklet, track_id)
    /\ tracklets' = Append(tracklets, current_tracklet)
    /\ track_id' = track_id + 1
    /\ idx' = idx + 1
    /\ pc' = "for"
    /\ UNCHANGED <<back_steps, path, reader, graph, pass, start_node, temp_node,
                   current_tracklet, visited_nodes, parent_graph, track_graph,
                   features, tracklets_graph, edges, exc>>

\* track_graph = {...}; return node_to_tid, track_graph
build_track_graph ==
    /\ pc = "remap"
    /\ IF remap_ok(parent_graph, node_to_tid)
       THEN /\ track_graph' = remap(parent_graph, node_to_tid, <<>>)
            /\ pc' = "returned"
            /\ UNCHANGED exc
       ELSE /\ pc' = "get_tracklets_raised"
            /\ exc' = "KeyError"
            /\ UNCHANGED track_graph
    /\ UNCHANGED <<back_steps, path, reader, graph, pass, idx, start_node, temp_node,
                   current_tracklet, track_id, visited_nodes, node_to_tid,
                   parent_graph, tracklets, features, tracklets_graph, edges>>

-----------------------------------------------------------------------------
\* get_geff_reader

\* Exceptions the try/except around validate(path) turns into "return None".
CaughtExceptions == {"AssertionError", "ValidationError"}

\* What validate(path) and GeffMetadata(**attrs) can do: finish, or raise.
ValidateOutcomes == {"ok", "AssertionError", "ValidationError", "ValueError"}
MetaOutcomes == {"ok", "ValidationError", "ValueError"}

AxisTypes == {"time", "space", "channel"}

\* Longest axes list of a file.
MaxAxes == 2

AxesLists == UNION {[1..k -> AxisTypes] : k \in 0..MaxAxes}

\* A geff store as the gate sees it.
Files ==
    {f \in [validate : ValidateOutcomes, meta : MetaOutcomes, has_axes : BOOLEAN,
             axes : AxesLists, directed : BOOLEAN] : f.has_axes \/ f.axes = <<>>}

GoodFile ==
    [validate |-> "ok", meta |-> "ok", has_axes |-> TRUE,
     axes |-> <<"time", "space">>, directed |-> TRUE]

BadFile == [GoodFile EXCEPT !.validate = "AssertionError"]

any_axis(axes, type) == \E i \in DOMAIN axes : axes[i] = type

\* the gate without the test of meta.directed
get_geff_reader_any_direction(p) ==
    LET f == IF p.is_list THEN p.files[1] ELSE p.file
    IN  IF f.validate \in CaughtExceptions THEN [result |-> "None", exc |-> "none"]
        ELSE IF f.validate # "ok" THEN [result |-> "raise", exc |-> f.validate]
        ELSE IF f.meta # "ok" THEN [result |-> "raise", exc |-> f.meta]
        ELSE IF ~f.has_axes THEN [result |-> "None", exc |-> "none"]
        ELSE IF ~any_axis(f.axes, "time") THEN [result |-> "None", exc |-> "none"]
        ELSE IF ~any_axis(f.axes, "space") THEN [result |-> "None", exc |-> "none"]
        ELSE [result |-> "reader_function", exc |-> "none"]

\* the outcome of get_geff_reader(path): [result, exc]
get_geff_reader(p) ==
    LET f == IF p.is_list THEN p.files[1] ELSE p.file
    IN  IF f.validate \in CaughtExceptions THEN [result |-> "None", exc |-> "none"]
        ELSE IF f.validate # "ok" THEN [result |-> "raise", exc |-> f.validate]
        ELSE IF f.meta # "ok" THEN [result |-> "raise", exc |-> f.meta]
        ELSE IF ~f.has_axes THEN [result |-> "None", exc |-> "none"]
        ELSE IF ~any_axis(f.axes, "time") THEN [result |-> "None", exc |-> "none"]
        ELSE IF ~any_axis(f.axes, "space") THEN [result |-> "None", exc |-> "none"]
        ELSE IF ~f.directed THEN [result |-> "None", exc |-> "none"]
        ELSE [result |-> "reader_function", exc |-> "none"]

call_get_geff_reader ==
    /\ pc = "get_geff_reader"
    /\ LET r == get_geff_reader(path)
       IN  /\ reader' = r.result
           /\ exc' = r.exc
           /\ pc' = IF r.result = "reader_function" THEN "get_tracklets"
                    ELSE IF r.result = "raise" THEN "get_geff_reader_raised" ELSE "declined"
    /\ UNCHANGED <<back_steps, path, graph, pass, idx, start_node, temp_node,
                   current_tracklet, track_id, visited_nodes, node_to_tid,
                   parent_graph, track_graph, tracklets, features, tracklets_graph,
                   edges>>

-----------------------------------------------------------------------------
\* reader_function, after get_tracklets returned

\* node_data_df["napari_track_id"] = node_data_df["node_id"].map(node_to_tid)
node_data_df(g, t, ntt) ==
    [i \in DOMAIN g.nodes |->
        [node_id |-> g.nodes[i],
         napari_track_id |-> IF g.nodes[i] \in DOMAIN ntt THEN ntt[g.nodes[i]] ELSE NaN,
         t |-> t[g.nodes[i]]]]

\* the time attributes of n nodes, as ranks
ranked_times(n) == {t \in [1..n -> 1..n] : \E k \in 1..n : Range(t) = 1..k}

RECURSIVE times_upto(_)
times_upto(n) ==
    IF n = 0 THEN <<>> ELSE Append(times_upto(n - 1), {t : t \in ranked_times(n)})

\* Times[n]: the time attributes n nodes can have
Times == times_upto(NumNodes)

\* pd.DataFrame(nx_graph.nodes(data=True)) reads the nodes' attributes: any
\* times that increase along every edge
reader_function ==
    /\ pc = "returned"
    /\ pass = 1
    /\ LET E == EdgeSet(graph)
       IN  \E t \in Times[Len(graph.nodes)] :
              /\ TimeRespecting(E, t)
              /\ features' = node_data_df(graph, t, node_to_tid)
    /\ tracklets_graph' = track_graph
    /\ pc' = "write_tracks"
    /\ UNCHANGED <<back_steps, path, reader, graph, pass, idx, start_node, temp_node,
                   current_tracklet, track_id, visited_nodes, node_to_tid,
                   parent_graph, track_graph, tracklets, edges, exc>>

-----------------------------------------------------------------------------
\* get_edge_df

\* the order of sort_values(by=["napari_track_id"]): the time column left out
row_before_by_tid(a, b) ==
    IF a.napari_track_id = b.napari_track_id THEN FALSE
    ELSE IF a.napari_track_id = NaN THEN FALSE
    ELSE IF b.napari_track_id = NaN THEN TRUE
    ELSE a.napari_track_id < b.napari_track_id

\* the order sort_values(by=["napari_track_id", t_axis]) puts two rows in (NaN last)
row_before(a, b) ==
    IF a.napari_track_id = b.napari_track_id THEN a.t < b.t
    ELSE IF a.napari_track_id = NaN THEN FALSE
    ELSE IF b.napari_track_id = NaN THEN TRUE
    ELSE a.napari_track_id < b.napari_track_id

\* r put into the sorted rows s behind every row that is not after it
RECURSIVE insert_row(_, _)
insert_row(s, r) ==
    IF s = <<>> THEN <<r>>
    ELSE IF row_before(r, s[Len(s)]) THEN Append(insert_row(SubSeq(s, 1, Len(s) - 1), r), s[Len(s)])
    ELSE Append(s, r)

\* tracks_layer_data.sort_values(by=["napari_track_id", t_axis], inplace=True)
RECURSIVE sort_values(_)
sort_values(rows) ==
    IF rows = <<>> THEN <<>>
    ELSE insert_row(sort_values(SubSeq(rows, 1, Len(rows) - 1)), rows[Len(rows)])

is_tid_row(r, tid) == r.napari_track_id = tid

\* track_df["node_id"].tolist() of the group of one napari_track_id
group_nodes(rows, tid) ==
    LET sel == SelectSeq(rows, LAMBDA r : is_tid_row(r, tid))
    IN  [i \in DOMAIN sel |-> sel[i].node_id]

\* the keys groupby("napari_track_id") goes through (NaN keys are dropped)
group_keys(rows) == {rows[i].napari_track_id : i \in DOMAIN rows} \ {NaN}

\* zip(nodes[:-1], nodes[1:])
zip_pairs(nodes) == [i \in 1..(Len(nodes) - 1) |-> <<nodes[i], nodes[i + 1]>>]

\* the intra-tracklet edges, group after group in ascending napari_track_id
RECURSIVE intra_edges(_, _)
intra_edges(rows, keys) ==
    IF keys = {} THEN <<>>
    ELSE LET tid == CHOOSE k \in keys : \A m \in keys : k <= m
         IN  zip_pairs(group_nodes(rows, tid)) \o intra_edges(rows, keys \ {tid})

\* tracklet_extrema[tid]
extrema(rows, tid) ==
    LET nodes == group_nodes(rows, tid)
    IN  [first |-> nodes[1], last |-> nodes[Len(nodes)]]

\* the edges of one daughter tracklet to its parents
parent_edges(rows, daughter, parents) ==
    [j \in DOMAIN parents |->
        <<extrema(rows, parents[j]).last, extrema(rows, daughter).first>>]

\* the split and merge edges, item after item of tracklets_graph
RECURSIVE inter_edges(_, _)
inter_edges(rows, tg) ==
    IF tg = <<>> THEN <<>>
    ELSE parent_edges(rows, Head(tg).tid, Head(tg).parents) \o inter_edges(rows, Tail(tg))

\* every tracklet id tracklets_graph names is a key of tracklet_extrema
extrema_ok(rows, tg) ==
    \A i \in DOMAIN tg :
        /\ tg[i].tid \in group_keys(rows)
        /\ \A j \in DOMAIN tg[i].parents : tg[i].parents[j] \in group_keys(rows)

get_edge_df ==
    /\ pc = "write_tracks"
    /\ features' = sort_values(features)
    /\ IF extrema_ok(features', tracklets_graph)
       THEN /\ edges' = intra_edges(features', group_keys(features'))
                            \o inter_edges(features', tracklets_graph)
            /\ pc' = "create_nx_graph"
            /\ UNCHANGED exc
       ELSE /\ pc' = "get_edge_df_raised"
            /\ exc' = "KeyError"
            /\ UNCHANGED edges
    /\ UNCHANGED <<back_steps, path, reader, graph, pass, idx, start_node, temp_node,
                   current_tracklet, track_id, visited_nodes, node_to_tid,
                   parent_graph, track_graph, tracklets, tracklets_graph>>

-----------------------------------------------------------------------------
\* create_nx_graph

EmptyGraph == [nodes |-> <<>>, succ |-> [n \in Nodes |-> <<>>]]

add_node(g, n) == IF n \in Range(g.nodes) THEN g ELSE [g EXCEPT !.nodes = Append(@, n)]

add_edge(g, u, v) ==
    LET h == add_node(add_node(g, u), v)
    IN  IF v \in Range(h.succ[u]) THEN h ELSE [h EXCEPT !.succ[u] = Append(@, v)]

\* g.add_edges_from(zip(df["source"], df["target"]))
RECURSIVE add_edges_from(_, _)
add_edges_from(g, es) ==
    IF es = <<>> THEN g
    ELSE add_edges_from(add_edge(g, Head(es)[1], Head(es)[2]), Tail(es))

\* nx.from_pandas_edgelist(edges_df, create_using=nx.DiGraph()); an edges_df
\* built from no rows has no "source" column, and the lookup raises KeyError
create_nx_graph ==
    /\ pc = "create_nx_graph"
    /\ IF edges = <<>>
       THEN /\ pc' = "create_nx_graph_raised"
            /\ exc' = "KeyError"
            /\ UNCHANGED <<graph, pass>>
       ELSE /\ graph' = add_edges_from(EmptyGraph, edges)
            /\ pass' = 2
            /\ pc' = "get_tracklets"
            /\ UNCHANGED exc
    /\ UNCHANGED <<back_steps, path, reader, idx, start_node, temp_node,
                   current_tracklet, track_id, visited_nodes, node_to_tid,
                   parent_graph, track_graph, tracklets, features, tracklets_graph,
                   edges>>

-----------------------------------------------------------------------------
\* Specifications

\* the orders in which an adjacency dict can list the successors E gives each node
RECURSIVE adjacency(_, _)
adjacency(E, S) ==
    IF S = {} THEN {<<>>}
    ELSE LET u == CHOOSE x \in S : \A y \in S : x >= y
         IN  {Append(f, p) : f \in adjacency(E, S \ {u}),
                             p \in Perms({v \in Nodes : <<u, v>> \in E})}

\* the sets of at most k of the given pairs
RECURSIVE edge_sets(_, _)
edge_sets(pairs, k) ==
    IF k = 0 THEN {{}}
    ELSE LET S == edge_sets(pairs, k - 1)
         IN  S \cup {E \cup {e} : E \in S, e \in pairs}

\* the directed graphs on nodes 1..n with at most MaxEdges edges and no self-loop
Digraphs(n) ==
    LET pairs == {e \in (1..n) \X (1..n) : e[1] # e[2]}
    IN  {[nodes |-> [i \in 1..n |-> i], succ |-> a] :
            a \in UNION {adjacency(E, Nodes) : E \in edge_sets(pairs, MaxEdges)}}

\* the acyclic ones
Graphs(n) == {g \in Digraphs(n) : Acyclic(g)}

Idle ==
    /\ pass = 1
    /\ idx = 1
    /\ start_node = None
    /\ temp_node = None
    /\ back_steps = 0
    /\ current_tracklet = <<>>
    /\ track_id = first_track_id
    /\ visited_nodes = {}
    /\ node_to_tid = EmptyDict
    /\ parent_graph = <<>>
    /\ track_graph = <<>>
    /\ tracklets = <<>>
    /\ features = <<>>
    /\ tracklets_graph = <<>>
    /\ edges = <<>>
    /\ exc = "none"
    /\ reader = "pending"
    /\ pc = "get_geff_reader"

\* a store that passes the gate, holding any acyclic graph
Init ==
    /\ path = [is_list |-> FALSE, file |-> GoodFile]
    /\ \E n \in 1..NumNodes : graph \in Graphs(n)
    /\ Idle

\* the division A->B, B->C, B->D
DivisionGraph ==
    [nodes |-> <<1, 2, 3, 4>>,
     succ |-> [n \in Nodes |-> IF n = 1 THEN <<2>> ELSE IF n = 2 THEN <<3, 4>> ELSE <<>>]]

\* any store, given alone or first in a list of paths, holding the division
GateInit ==
    /\ \E f \in Files :
         path \in {[is_list |-> FALSE, file |-> f],
                   [is_list |-> TRUE, files |-> <<f>>],
                   [is_list |-> TRUE, files |-> <<f, GoodFile>>],
                   [is_list |-> TRUE, files |-> <<f, BadFile>>]}
    /\ graph = DivisionGraph
    /\ Idle

Next ==
    \/ call_get_geff_reader
    \/ get_tracklets_begin
    \/ for_node
    \/ backward_walk
    \/ forward_walk
    \/ assign_track_id
    \/ build_track_graph
    \/ reader_function
    \/ get_edge_df
    \/ create_nx_graph

Spec == Init /\ [][Next]_vars

GateSpec == GateInit /\ [][Next]_vars

\* a store that passes the gate, holding any directed graph
CyclicInit ==
    /\ path = [is_list |-> FALSE, file |-> GoodFile]
    /\ \E n \in 1..NumNodes : graph \in Digraphs(n)
    /\ Idle

\* the reader up to the return of its call of get_tracklets
TrackletsNext ==
    \/ call_get_geff_reader
    \/ get_tracklets_begin
    \/ for_node
    \/ backward_walk
    \/ forward_walk
    \/ assign_track_id
    \/ build_track_graph

\* the reader runs on one thread: the statement it has reached is executed
TrackletsSpec == Init /\ [][TrackletsNext]_vars /\ WF_vars(TrackletsNext)

CyclicSpec == CyclicInit /\ [][TrackletsNext]_vars /\ WF_vars(TrackletsNext)

-----------------------------------------------------------------------------
\* Properties

Last(s) == s[Len(s)]

\* get_tracklets has ended, by return or by exception
Ended == pc \in {"returned", "get_tracklets_raised"}

tid_of(n) == node_to_tid[n]

\* the tracklet ids node_to_tid uses
TidsUsed == {node_to_tid[n] : n \in DOMAIN node_to_tid}

\* how many member lists hold node n
Memberships(n) ==
    Cardinality({<<i, j>> \in (DOMAIN tracklets) \X (1..NumNodes) :
                    j \in DOMAIN tracklets[i] /\ tracklets[i][j] = n})

\* C1: whenever get_tracklets ends, it has returned, every node of the graph is
\* a key of node_to_tid, and every node is on exactly one member list.
C1_TotalCoverage ==
    Ended =>
        /\ pc = "returned"
        /\ DOMAIN node_to_tid = NodeSet(graph)
        /\ \A n \in NodeSet(graph) : Memberships(n) = 1

\* the rows of the sorted table before the first inter-tracklet edge
NumIntra == Len(features) - Cardinality(group_keys(features))

\* rows i and i+1 of the table hold the two ends of edge e, in one tracklet
ConsecutiveRows(e) ==
    \E i \in 1..(Len(features) - 1) :
        /\ features[i].node_id = e[1]
        /\ features[i + 1].node_id = e[2]
        /\ features[i].napari_track_id = features[i + 1].napari_track_id
        /\ features[i].t < features[i + 1].t

\* C2: the edges get_edge_df emits for the decomposition of a time-respecting
\* graph are exactly the graph's edges, each once: first the edges inside a
\* tracklet, as consecutive rows in time order, then the edges between
\* tracklets, from the parent's last member to the child's first member.
C2_EdgeSetRoundTrip ==
    (pass = 1 /\ pc = "create_nx_graph") =>
        /\ Range(edges) = EdgeSet(graph)
        /\ Len(edges) = Cardinality(EdgeSet(graph))
        /\ \A i \in DOMAIN edges :
              IF i <= NumIntra
              THEN /\ tid_of(edges[i][1]) = tid_of(edges[i][2])
                   /\ ConsecutiveRows(edges[i])
              ELSE /\ tid_of(edges[i][1]) # tid_of(edges[i][2])
                   /\ edges[i][1] = Last(tracklets[tid_of(edges[i][1])])
                   /\ edges[i][2] = tracklets[tid_of(edges[i][2])][1]

C2_Witness ==
    /\ pass = 1
    /\ pc = "create_nx_graph"
    /\ NumIntra >= 1
    /\ Len(edges) >= NumIntra + 2
    /\ graph.nodes[1] # tracklets[1][1]

\* the store the gate looks at
GateFile == IF path.is_list THEN path.files[1] ELSE path.file

\* a store with validated, directed metadata that has a time and a space axis
Supported(f) ==
    /\ f.validate = "ok"
    /\ f.meta = "ok"
    /\ f.has_axes
    /\ "time" \in Range(f.axes)
    /\ "space" \in Range(f.axes)
    /\ f.directed

\* C6: get_geff_reader, looking at the first path only, returns reader_function
\* exactly for a store that validates and whose metadata is directed with a
\* time axis and a space axis; it returns None when the validator rejects the
\* store (AssertionError, ValidationError), when there are no axes, no time
\* axis, no space axis, or the graph is not directed.
C6_ReaderGate ==
    pc # "get_geff_reader" =>
        /\ reader = "reader_function" <=> Supported(GateFile)
        /\ GateFile.validate \in {"AssertionError", "ValidationError"} => reader = "None"
        /\ (GateFile.validate = "ok" /\ GateFile.meta = "ok" /\ ~Supported(GateFile))
              => reader = "None"

C6_Witness ==
    /\ reader = "reader_function"
    /\ path.is_list
    /\ Len(path.files) = 2
    /\ ~Supported(path.files[2])

\* C7: for every store that is invalid or unsupported, whatever the validator
\* or the metadata constructor raises, get_geff_reader returns None; it never
\* ends by an exception.
C7_DeclinesNeverRaises ==
    pc # "get_geff_reader" =>
        /\ pc # "get_geff_reader_raised"
        /\ ~Supported(GateFile) => reader = "None"

\* C8: get_tracklets does not change the graph, and get_edge_df changes
\* neither the rows of the table it is given (content and order) nor the
\* tracklets_graph mapping.
C8_Pure ==
    [][/\ pc \in {"get_tracklets", "for", "backward", "forward", "assign", "remap"}
            => graph' = graph
       /\ pc = "write_tracks"
            => (features' = features /\ tracklets_graph' = tracklets_graph)]_vars

\* the groups of nodes a table of rows puts in one tracklet
RowPartition(rows) ==
    {{rows[j].node_id : j \in {k \in DOMAIN rows : rows[k].napari_track_id = rows[i].napari_track_id}} :
        i \in DOMAIN rows}

\* the groups of nodes node_to_tid puts in one tracklet
DictPartition(ntt) == {{m \in DOMAIN ntt : ntt[m] = ntt[n]} : n \in DOMAIN ntt}

\* the parent/child pairs of a tracklet mapping, each tracklet as its group of nodes
RowParents(rows, tg) ==
    {<<{rows[k].node_id : k \in {m \in DOMAIN rows : rows[m].napari_track_id = tg[i].parents[j]}},
       {rows[k].node_id : k \in {m \in DOMAIN rows : rows[m].napari_track_id = tg[i].tid}}>> :
        <<i, j>> \in {x \in (DOMAIN tg) \X (1..NumNodes) : x[2] \in DOMAIN tg[x[1]].parents}}

DictParents(ntt, tg) ==
    {<<{m \in DOMAIN ntt : ntt[m] = tg[i].parents[j]}, {m \in DOMAIN ntt : ntt[m] = tg[i].tid}>> :
        <<i, j>> \in {x \in (DOMAIN tg) \X (1..NumNodes) : x[2] \in DOMAIN tg[x[1]].parents}}

\* C3: the decomposition of the rebuilt graph groups the nodes of the loaded
\* graph as the first decomposition did, with the same parent/child relation
\* between the groups.
C3_RoundTrip ==
    (pass = 2 /\ pc = "returned") =>
        /\ DictPartition(node_to_tid) = RowPartition(features)
        /\ DictParents(node_to_tid, track_graph) = RowParents(features, tracklets_graph)

\* C4: when get_tracklets returns, the two ends of an edge share a tracklet id
\* exactly when the source has out-degree 1 and the target in-degree 1; the
\* members of a tracklet form a path whose inner nodes have in- and out-degree 1.
C4_Linearity ==
    pc = "returned" =>
        /\ \A e \in EdgeSet(graph) :
              (tid_of(e[1]) = tid_of(e[2])) <=>
                  (out_degree(graph, e[1]) = 1 /\ in_degree(graph, e[2]) = 1)
        /\ \A i \in DOMAIN tracklets :
              /\ \A j \in 1..(Len(tracklets[i]) - 1) :
                    <<tracklets[i][j], tracklets[i][j + 1]>> \in EdgeSet(graph)
              /\ \A j \in 2..(Len(tracklets[i]) - 1) :
                    /\ in_degree(graph, tracklets[i][j]) = 1
                    /\ out_degree(graph, tracklets[i][j]) = 1
              /\ \A n \in NodeSet(graph) :
                    tid_of(n) = i <=> n \in Range(tracklets[i])

C4_Witness ==
    /\ pc = "returned"
    /\ \E i \in DOMAIN tracklets : Len(tracklets[i]) >= 2
    /\ \E e \in EdgeSet(graph) : out_degree(graph, e[1]) = 1 /\ in_degree(graph, e[2]) = 2
    /\ graph.nodes[1] # tracklets[1][1]

\* the first member of the tracklet with id c
StartOf(c) == tracklets[c][1]

\* C5: when get_tracklets returns, track_graph has one item for each tracklet
\* whose first member has a predecessor, and no other; the item lists, each
\* once, the tracklets of the predecessors of that first member; each parent
\* tracklet ends at a node with an edge into it; every edge between two
\* tracklets is listed.
C5_ParentMapping ==
    pc = "returned" =>
        /\ \A i, j \in DOMAIN track_graph : track_graph[i].tid = track_graph[j].tid => i = j
        /\ {track_graph[i].tid : i \in DOMAIN track_graph}
              = {c \in DOMAIN tracklets : in_degree(graph, StartOf(c)) >= 1}
        /\ \A i \in DOMAIN track_graph :
              LET c == track_graph[i].tid
                  P == track_graph[i].parents
              IN  /\ \A j, k \in DOMAIN P : P[j] = P[k] => j = k
                  /\ Range(P) = {tid_of(u) : u \in predecessors(graph, StartOf(c))}
                  /\ \A j \in DOMAIN P : <<Last(tracklets[P[j]]), StartOf(c)>> \in EdgeSet(graph)
        /\ \A e \in EdgeSet(graph) :
              tid_of(e[1]) # tid_of(e[2]) =>
                  \E i \in DOMAIN track_graph :
                      /\ track_graph[i].tid = tid_of(e[2])
                      /\ tid_of(e[1]) \in Range(track_graph[i].parents)

C5_Witness ==
    /\ pc = "returned"
    /\ \E i \in DOMAIN track_graph : Len(track_graph[i].parents) >= 2
    /\ \E i \in DOMAIN tracklets : Len(tracklets[i]) >= 2

\* every node has at most one predecessor and at most one successor
IsChains(g) == \A n \in NodeSet(g) : in_degree(g, n) <= 1 /\ out_degree(g, n) <= 1

\* the chain that begins at node n, in order
RECURSIVE ChainFrom(_, _)
ChainFrom(g, n) ==
    IF out_degree(g, n) = 0 THEN <<n>> ELSE <<n>> \o ChainFrom(g, g.succ[n][1])

\* C9: on a disjoint union of chains get_tracklets returns, whatever the
\* enumeration order, one tracklet per chain, holding the chain's nodes in
\* order, and an empty parent mapping.
C9_Chains ==
    (Ended /\ IsChains(graph)) =>
        /\ pc = "returned"
        /\ track_graph = <<>>
        /\ Len(tracklets) = Cardinality({n \in NodeSet(graph) : in_degree(graph, n) = 0})
        /\ \A i \in DOMAIN tracklets :
              /\ in_degree(graph, tracklets[i][1]) = 0
              /\ tracklets[i] = ChainFrom(graph, tracklets[i][1])
              /\ \A n \in Range(tracklets[i]) : tid_of(n) = i

C9_Witness ==
    /\ pc = "returned"
    /\ pass = 1
    /\ IsChains(graph)
    /\ Len(tracklets) = 1
    /\ Len(tracklets[1]) = NumNodes
    /\ in_degree(graph, graph.nodes[1]) = 1
    /\ out_degree(graph, graph.nodes[1]) = 1

\* C10: when get_tracklets returns after building K tracklets, the ids in
\* node_to_tid are exactly 1..K, the members of the i-th tracklet built have
\* id i, and every id in track_graph is in 1..K.
C10_TrackletIds ==
    pc = "returned" =>
        LET K == Len(tracklets)
        IN  /\ TidsUsed = 1..K
            /\ \A i \in 1..K : \A n \in Range(tracklets[i]) : tid_of(n) = i
            /\ \A i \in DOMAIN track_graph :
                  /\ track_graph[i].tid \in 1..K
                  /\ Range(track_graph[i].parents) \subseteq 1..K

C10_Witness ==
    /\ pc = "returned"
    /\ Len(tracklets) >= 3
    /\ track_graph # <<>>
    /\ graph.nodes[1] # tracklets[1][1]


\* the walks of get_tracklets stay within the number of nodes, and the forward
\* walk is about to append a node that is not yet visited
WalkBounds ==
    /\ back_steps <= Len(graph.nodes)
    /\ Len(current_tracklet) <= Len(graph.nodes)
    /\ pc = "forward" => temp_node \notin visited_nodes

\* C11: on an acyclic graph every call of get_tracklets ends (by return or by
\* exception); no backward walk and no forward walk takes more steps than the
\* graph has nodes, and the forward walk never enters a visited node.
C11_Termination ==
    /\ []WalkBounds
    /\ (pc = "get_tracklets") ~> Ended

C11_Witness ==
    /\ Ended
    /\ \E i \in DOMAIN tracklets : Len(tracklets[i]) = NumNodes - 1
    /\ Len(tracklets) >= 2
    /\ graph.nodes[1] # tracklets[1][1]

\* C12: on any finite directed graph, one with a directed cycle included, every
\* call of get_tracklets ends (by return or by exception).
C12_TerminatesOnCycles == (pc = "get_tracklets") ~> Ended

\* the nodes recorded as parents in the deferred list parent_graph
RecordedParents == UNION {Range(parent_graph[i].parents) : i \in DOMAIN parent_graph}

\* the nodes recorded as children in the deferred list parent_graph
RecordedChildren == {parent_graph[i].child : i \in DOMAIN parent_graph}

\* C13: get_tracklets returns only with every node of the graph in node_to_tid;
\* it raises only in the remap, on a recorded child that has no tracklet id;
\* every recorded parent has a tracklet id once its tracklet has been assigned;
\* and the remap fails exactly when the outer scan left some node unvisited.
C13_NoPartialResult ==
    /\ pc = "returned" => DOMAIN node_to_tid = NodeSet(graph)
    /\ pc = "get_tracklets_raised" =>
          /\ exc = "KeyError"
          /\ idx > Len(graph.nodes)
          /\ \E child \in RecordedChildren : child \notin DOMAIN node_to_tid
    /\ RecordedParents \subseteq
          DOMAIN node_to_tid \cup (IF pc = "assign" THEN Range(current_tracklet) ELSE {})
    /\ Ended => (pc = "get_tracklets_raised" <=> visited_nodes # NodeSet(graph))

C13_Witness ==
    /\ pc = "get_tracklets_raised"
    /\ visited_nodes # NodeSet(graph)
    /\ RecordedParents # {}
    /\ Len(tracklets) >= 2

=============================================================================
